---- MODULE Spec2Model ----
(***************************************************************************)
(* A model of the CORS forwarding gateway of cors-header-proxy.            *)
(*                                                                         *)
(* The repository holds three deployments of the worker's fetch handler:   *)
(*   "secure"   src/unnamed/part_000 (and src/src/index.ts:1-213, 543-886) *)
(*   "selftest" src/src/index.ts:217-541, the secure worker and /test-cors *)
(*   "basic"    src/unnamed/part_001, the plain forwarder                  *)
(*                                                                         *)
(* A JavaScript string is a sequence of tokens (a digit, a URL component,  *)
(* a whole opaque value), so that parseInt, new URL and startsWith are     *)
(* computed on the text and not assumed. JavaScript null is the reserved   *)
(* one-token sequence NULL. A header map (a Headers object or an object    *)
(* literal) is a function from the names present to their values. A list   *)
(* of methods in a header value has one token per method and separator.    *)
(***************************************************************************)
EXTENDS Integers, Sequences, FiniteSets, TLC

VARIABLES variant, pc, req, sub, calls, timer, aborted, err, upstream, resp, served,
          flights

vars ==
  <<variant, pc, req, sub, calls, timer, aborted, err, upstream, resp, served, flights>>

NULL == <<"<null>">>

S(tok) == <<tok>>

\* !v of JavaScript for a string-or-null value
Falsy(v) == v = NULL \/ v = <<>>

\* a || b
OrElse(a, b) == IF Falsy(a) THEN b ELSE a

NoHeaders == [n \in {} |-> <<>>]

\* Headers.get(name): null when the header is absent
Get(h, name) == IF name \in DOMAIN h THEN h[name] ELSE NULL

\* { ...a, ...b }: the later spread wins
Spread(a, b) == b @@ a

RECURSIVE StartsWith(_, _)
StartsWith(s, p) ==
  IF p = <<>> THEN TRUE
  ELSE IF s = <<>> THEN FALSE
  ELSE Head(s) = Head(p) /\ StartsWith(Tail(s), Tail(p))

(***************************************************************************)
(* parseInt(string), radix undefined: leading white space is skipped, a    *)
(* sign is read, a 0x prefix selects radix 16, the longest run of digits   *)
(* is converted, and the result is NaN when there is no digit.             *)
(***************************************************************************)
WhiteSpace == {" "}

DigitValue(c) ==
  CASE c = "0" -> 0 [] c = "1" -> 1 [] c = "2" -> 2 [] c = "3" -> 3
    [] c = "4" -> 4 [] c = "5" -> 5 [] c = "6" -> 6 [] c = "7" -> 7
    [] c = "8" -> 8 [] c = "9" -> 9 [] c = "a" -> 10 [] c = "b" -> 11
    [] c = "c" -> 12 [] c = "d" -> 13 [] c = "e" -> 14 [] c = "f" -> 15
    [] OTHER -> 99

IsDigit(c, radix) == DigitValue(c) < radix

RECURSIVE SkipWhite(_)
SkipWhite(s) ==
  IF s # <<>> /\ Head(s) \in WhiteSpace THEN SkipWhite(Tail(s)) ELSE s

\* <<number of digits read, value>> of the longest digit prefix of s
RECURSIVE Digits(_, _, _, _)
Digits(s, radix, n, acc) ==
  IF s # <<>> /\ IsDigit(Head(s), radix)
  THEN Digits(Tail(s), radix, n + 1, acc * radix + DigitValue(Head(s)))
  ELSE <<n, acc>>

NaN == [nan |-> TRUE, value |-> 0]

Num(v) == [nan |-> FALSE, value |-> v]

parseInt(str) ==
  IF str = NULL THEN NaN
  ELSE
    LET t == SkipWhite(str)
        neg == t # <<>> /\ Head(t) = "-"
        u == IF t # <<>> /\ Head(t) \in {"-", "+"} THEN Tail(t) ELSE t
        hex == Len(u) >= 2 /\ u[1] = "0" /\ u[2] \in {"x", "X"}
        v == IF hex THEN Tail(Tail(u)) ELSE u
        d == Digits(v, IF hex THEN 16 ELSE 10, 0, 0)
    IN IF d[1] = 0 THEN NaN
       ELSE Num(IF neg THEN 0 - d[2] ELSE d[2])

\* mutant: the comparison is not strict
NumGreater_OrEqual(a, b) == ~a.nan /\ a.value >= b

\* a > b of JavaScript for a parseInt result a: false when a is NaN
NumGreater(a, b) == ~a.nan /\ a.value > b

(***************************************************************************)
(* new URL(string) without a base. The string is a sequence of components: *)
(* a scheme ("https:"), "//", an optional userinfo ("user@"), a host, an   *)
(* optional port (":8443") and the rest (path, query, fragment). The       *)
(* parser lower-cases scheme and host, drops the default port, takes the   *)
(* slashes of a special scheme as optional, and throws (ok = FALSE) when   *)
(* there is no scheme or, for a special scheme, no valid host.             *)
(***************************************************************************)
SchemeTokens == {"https:", "http:", "HTTPS:", "ftp:", "javascript:"}

SpecialSchemes == {"https:", "http:", "ftp:"}

UserinfoTokens == {"user@", "httpbin.org@"}

HostTokens == {"httpbin.org", "HTTPBIN.ORG", "api.example.com", "trusted-api.com",
               "evil.example", "httpbin.org.evil.example"}

PortTokens == {":443", ":8443", ":80"}

Lower(tok) ==
  CASE tok = "HTTPS:" -> "https:"
    [] tok = "HTTPBIN.ORG" -> "httpbin.org"
    [] OTHER -> tok

DefaultPort(protocol) ==
  CASE protocol = "https:" -> ":443"
    [] protocol = "http:" -> ":80"
    [] OTHER -> ""

URLFailure ==
  [ok |-> FALSE, protocol |-> "", username |-> "", hostname |-> "", port |-> "",
   rest |-> <<>>]

ParseAuthority(protocol, s) ==
  LET hasUser == s # <<>> /\ Head(s) \in UserinfoTokens
      a == IF hasUser THEN Tail(s) ELSE s
  IN IF a = <<>> \/ Head(a) \notin HostTokens THEN URLFailure
     ELSE
       LET b == Tail(a)
           hasPort == b # <<>> /\ Head(b) \in PortTokens
       IN [ok |-> TRUE,
           protocol |-> protocol,
           username |-> IF hasUser THEN Head(s) ELSE "",
           hostname |-> Lower(Head(a)),
           port |-> IF hasPort /\ Head(b) # DefaultPort(protocol) THEN Head(b) ELSE "",
           rest |-> IF hasPort THEN Tail(b) ELSE b]

ParseURL(str) ==
  IF str = <<>> \/ Head(str) \notin SchemeTokens THEN URLFailure
  ELSE
    LET protocol == Lower(Head(str))
        s == Tail(str)
    IN IF protocol \in SpecialSchemes
       THEN ParseAuthority(protocol, IF s # <<>> /\ Head(s) = "//" THEN Tail(s) ELSE s)
       ELSE [ok |-> TRUE, protocol |-> protocol, username |-> "", hostname |-> "",
             port |-> "", rest |-> s]

\* URL.origin of a parsed URL, as one value
URLOrigin(u) == <<u.protocol, "//", u.hostname>> \o (IF u.port = "" THEN <<>> ELSE <<u.port>>)

(***************************************************************************)
(* Requests and responses.                                                 *)
(***************************************************************************)
NullBody == [kind |-> "null", obj |-> {}, data |-> <<>>]

\* JSON.stringify(object): the body is the object's set of <<field, value>>
JsonBody(fields) == [kind |-> "json", obj |-> fields, data |-> <<>>]

TextBody(text) == [kind |-> "text", obj |-> {}, data |-> text]

\* new Response(body, {status, statusText, headers})
Response(body, status, statusText, headers) ==
  [status |-> status, statusText |-> statusText, headers |-> headers, body |-> body]

\* new Request(url, {method, headers, body})
Request(url, method, headers, body) ==
  [url |-> url, method |-> method, headers |-> headers, body |-> body]

\* url.searchParams.get(name)
SearchParam(url, name) == Get(url.params, name)

\* what the synchronous part of a handler ends with: a response, an awaited
\* fetch(proxyRequest), or an exception thrown before any await
NoResponse == Response(NullBody, 0, "", NoHeaders)

NoRequest == Request(<<>>, "", NoHeaders, NULL)

Return(response) == [kind |-> "return", response |-> response, call |-> NoRequest]

Await(proxyRequest) == [kind |-> "await", response |-> NoResponse, call |-> proxyRequest]

Throw == [kind |-> "throw", response |-> NoResponse, call |-> NoRequest]

(***************************************************************************)
(* The secure worker: configuration and helpers.                           *)
(***************************************************************************)
ALLOWED_ORIGINS ==
  {S("https://yourdomain.com"), S("https://app.yourdomain.com"),
   S("https://staging.yourdomain.com")}

ALLOWED_APIS ==
  {<<"https:", "//", "httpbin.org">>, <<"https:", "//", "api.example.com">>,
   <<"https:", "//", "trusted-api.com">>}

PROXY_ENDPOINT == <<"/", "corsproxy", "/">>

\* mutant: the ceiling is 100 MiB
ResponseSizeLimit_Hundred == 100 * 1024 * 1024

ResponseSizeLimit == 10 * 1024 * 1024

\* mutant: the request is checked against the response ceiling
RequestSizeLimit_Swapped == ResponseSizeLimit

RequestSizeLimit == 1024 * 1024

validateOrigin(origin) ==
  IF Falsy(origin) THEN TRUE ELSE origin \in ALLOWED_ORIGINS

\* mutant: the protocol comparison is forgotten
validateApiUrl_HostOnly(apiUrl) ==
  IF Falsy(apiUrl) THEN FALSE
  ELSE
    LET url == ParseURL(apiUrl)
    IN IF ~url.ok THEN FALSE
       ELSE \E allowedApi \in ALLOWED_APIS :
              url.hostname = ParseURL(allowedApi).hostname

\* mutant: the target is matched as a string starting with an entry
validateApiUrl_Prefix(apiUrl) ==
  IF Falsy(apiUrl) THEN FALSE
  ELSE \E allowedApi \in ALLOWED_APIS : StartsWith(apiUrl, allowedApi)

\* mutant: the port takes part in the comparison (url.host)
validateApiUrl_WithPort(apiUrl) ==
  IF Falsy(apiUrl) THEN FALSE
  ELSE
    LET url == ParseURL(apiUrl)
    IN IF ~url.ok THEN FALSE
       ELSE \E allowedApi \in ALLOWED_APIS :
              LET allowedUrl == ParseURL(allowedApi)
              IN /\ url.hostname = allowedUrl.hostname
                 /\ url.port = allowedUrl.port
                 /\ url.protocol = allowedUrl.protocol

validateApiUrl(apiUrl) ==
  IF Falsy(apiUrl) THEN FALSE
  ELSE
    LET url == ParseURL(apiUrl)
    IN IF ~url.ok THEN FALSE
       ELSE \E allowedApi \in ALLOWED_APIS :
              LET allowedUrl == ParseURL(allowedApi)
              IN url.hostname = allowedUrl.hostname /\ url.protocol = allowedUrl.protocol

\* mutant: the origin is echoed without being validated
getCorsHeaders_NoValidation(origin) ==
  IF Falsy(origin) THEN NoHeaders
  ELSE [n \in {"Access-Control-Allow-Origin", "Access-Control-Allow-Methods",
               "Access-Control-Allow-Headers", "Access-Control-Max-Age", "Vary"} |->
          CASE n = "Access-Control-Allow-Origin" -> origin
            [] n = "Access-Control-Allow-Methods" ->
                 <<"GET", ", ", "HEAD", ", ", "POST", ", ", "OPTIONS">>
            [] n = "Access-Control-Allow-Headers" ->
                 S("Content-Type, Authorization, X-Requested-With")
            [] n = "Access-Control-Max-Age" -> S("86400")
            [] n = "Vary" -> S("Origin")]

getCorsHeaders(origin) ==
  IF Falsy(origin) \/ ~validateOrigin(origin) THEN NoHeaders
  ELSE [n \in {"Access-Control-Allow-Origin", "Access-Control-Allow-Methods",
               "Access-Control-Allow-Headers", "Access-Control-Max-Age", "Vary"} |->
          CASE n = "Access-Control-Allow-Origin" -> origin
            [] n = "Access-Control-Allow-Methods" ->
                 <<"GET", ", ", "HEAD", ", ", "POST", ", ", "OPTIONS">>
            [] n = "Access-Control-Allow-Headers" ->
                 S("Content-Type, Authorization, X-Requested-With")
            [] n = "Access-Control-Max-Age" -> S("86400")
            [] n = "Vary" -> S("Origin")]

\* the headers of every JSON response of handleSecureRequest
JsonHeaders(origin) ==
  Spread("Content-Type" :> S("application/json"), getCorsHeaders(origin))

ErrorBody(error, message) == JsonBody({<<"error", S(error)>>, <<"message", S(message)>>})

\* mutant: the declared size is checked before the target
handleSecureRequest_SizeFirst(request) ==
  LET origin == Get(request.headers, "Origin")
      apiUrl == SearchParam(request.url, "apiurl")
      contentLength == Get(request.headers, "Content-Length")
  IN IF ~Falsy(contentLength) /\ NumGreater(parseInt(contentLength), RequestSizeLimit)
     THEN Return(Response(ErrorBody("Request Too Large", "Request body too large (max 1MB)"),
                          413, "", JsonHeaders(origin)))
     ELSE IF ~validateApiUrl(apiUrl)
     THEN Return(Response(JsonBody({<<"error", S("Forbidden")>>,
                                    <<"message", S("Target API not allowed")>>,
                                    <<"allowedApis", S("ALLOWED_APIS")>>}),
                          403, "", JsonHeaders(origin)))
     ELSE Await(Request(apiUrl, request.method,
                        [n \in {"Content-Type", "User-Agent"} |->
                           IF n = "Content-Type"
                           THEN OrElse(Get(request.headers, "Content-Type"),
                                       S("application/json"))
                           ELSE S("SecureCorsProxy/1.0")],
                        request.body))

\* mutant: a request of an origin outside ALLOWED_ORIGINS is refused
handleSecureRequest_RejectOrigin(request) ==
  LET origin == Get(request.headers, "Origin")
      apiUrl == SearchParam(request.url, "apiurl")
      contentLength == Get(request.headers, "Content-Length")
  IN IF ~validateOrigin(origin) \/ ~validateApiUrl(apiUrl)
     THEN Return(Response(JsonBody({<<"error", S("Forbidden")>>,
                                    <<"message", S("Target API not allowed")>>,
                                    <<"allowedApis", S("ALLOWED_APIS")>>}),
                          403, "", JsonHeaders(origin)))
     ELSE IF ~Falsy(contentLength) /\ NumGreater(parseInt(contentLength), RequestSizeLimit)
     THEN Return(Response(ErrorBody("Request Too Large", "Request body too large (max 1MB)"),
                          413, "", JsonHeaders(origin)))
     ELSE Await(Request(apiUrl, request.method,
                        [n \in {"Content-Type", "User-Agent"} |->
                           IF n = "Content-Type"
                           THEN OrElse(Get(request.headers, "Content-Type"),
                                       S("application/json"))
                           ELSE S("SecureCorsProxy/1.0")],
                        request.body))

\* handleSecureRequest up to its first await
handleSecureRequest(request) ==
  LET origin == Get(request.headers, "Origin")
      apiUrl == SearchParam(request.url, "apiurl")
      contentLength == Get(request.headers, "Content-Length")
  IN IF ~validateApiUrl(apiUrl)
     THEN Return(Response(JsonBody({<<"error", S("Forbidden")>>,
                                    <<"message", S("Target API not allowed")>>,
                                    <<"allowedApis", S("ALLOWED_APIS")>>}),
                          403, "", JsonHeaders(origin)))
     ELSE IF ~ParseURL(apiUrl).ok
     THEN Return(Response(ErrorBody("Bad Request", "Invalid API URL format"),
                          400, "", JsonHeaders(origin)))
     ELSE IF ~Falsy(contentLength) /\ NumGreater(parseInt(contentLength), RequestSizeLimit)
     THEN Return(Response(ErrorBody("Request Too Large", "Request body too large (max 1MB)"),
                          413, "", JsonHeaders(origin)))
     ELSE Await(Request(apiUrl, request.method,
                        [n \in {"Content-Type", "User-Agent"} |->
                           IF n = "Content-Type"
                           THEN OrElse(Get(request.headers, "Content-Type"),
                                       S("application/json"))
                           ELSE S("SecureCorsProxy/1.0")],
                        request.body))

\* mutant: the upstream status is not copied
handleSecureResponse_Status200(request, response) ==
  LET origin == Get(request.headers, "Origin")
      responseSize == Get(response.headers, "Content-Length")
  IN IF ~Falsy(responseSize) /\ NumGreater(parseInt(responseSize), ResponseSizeLimit)
     THEN Response(ErrorBody("Response Too Large", "Response too large (max 10MB)"),
                   502, "", JsonHeaders(origin))
     ELSE Response(response.body, 200, "OK",
                   Spread([n \in {"Content-Type", "Content-Length"} |->
                             IF n = "Content-Type"
                             THEN OrElse(Get(response.headers, "Content-Type"),
                                         S("application/json"))
                             ELSE OrElse(Get(response.headers, "Content-Length"), <<>>)],
                          getCorsHeaders(origin)))

\* handleSecureRequest after fetch resolved with response
handleSecureResponse(request, response) ==
  LET origin == Get(request.headers, "Origin")
      responseSize == Get(response.headers, "Content-Length")
  IN IF ~Falsy(responseSize) /\ NumGreater(parseInt(responseSize), ResponseSizeLimit)
     THEN Response(ErrorBody("Response Too Large", "Response too large (max 10MB)"),
                   502, "", JsonHeaders(origin))
     ELSE Response(response.body, response.status, response.statusText,
                   Spread([n \in {"Content-Type", "Content-Length"} |->
                             IF n = "Content-Type"
                             THEN OrElse(Get(response.headers, "Content-Type"),
                                         S("application/json"))
                             ELSE OrElse(Get(response.headers, "Content-Length"), <<>>)],
                          getCorsHeaders(origin)))

\* mutant: the catch block tests for the wrong error name
handleSecureCatch_WrongName(request, errorName) ==
  LET origin == Get(request.headers, "Origin")
  IN IF errorName = "TimeoutError"
     THEN Response(ErrorBody("Gateway Timeout", "Request timed out"),
                   504, "", JsonHeaders(origin))
     ELSE Response(ErrorBody("Bad Gateway", "Failed to fetch from target API"),
                   502, "", JsonHeaders(origin))

\* mutant: the catch block reports every failure as a timeout
handleSecureCatch_AlwaysTimeout(request, errorName) ==
  Response(ErrorBody("Gateway Timeout", "Request timed out"),
           504, "", JsonHeaders(Get(request.headers, "Origin")))

\* the catch block of handleSecureRequest
handleSecureCatch(request, errorName) ==
  LET origin == Get(request.headers, "Origin")
  IN IF errorName = "AbortError"
     THEN Response(ErrorBody("Gateway Timeout", "Request timed out"),
                   504, "", JsonHeaders(origin))
     ELSE Response(ErrorBody("Bad Gateway", "Failed to fetch from target API"),
                   502, "", JsonHeaders(origin))

\* mutant: the preflight is answered without looking at the origin first
handleOptions_NoOriginCheck(request) ==
  LET origin == Get(request.headers, "Origin")
      corsHeaders == getCorsHeaders(origin)
  IN IF Get(request.headers, "Access-Control-Request-Method") # NULL
     THEN Response(NullBody, 200, "",
                   Spread(corsHeaders,
                          "Access-Control-Allow-Headers" :>
                            OrElse(Get(request.headers, "Access-Control-Request-Headers"),
                                   S("Content-Type"))))
     ELSE Response(NullBody, 200, "",
                   Spread("Allow" :> <<"GET", ", ", "HEAD", ", ", "POST", ", ", "OPTIONS">>,
                          corsHeaders))

handleOptions(request) ==
  LET origin == Get(request.headers, "Origin")
      corsHeaders == getCorsHeaders(origin)
  IN IF ~Falsy(origin) /\ ~validateOrigin(origin)
     THEN Response(NullBody, 200, "", NoHeaders)
     ELSE IF Get(request.headers, "Access-Control-Request-Method") # NULL
     THEN Response(NullBody, 200, "",
                   Spread(corsHeaders,
                          "Access-Control-Allow-Headers" :>
                            OrElse(Get(request.headers, "Access-Control-Request-Headers"),
                                   S("Content-Type"))))
     ELSE Response(NullBody, 200, "",
                   Spread("Allow" :> <<"GET", ", ", "HEAD", ", ", "POST", ", ", "OPTIONS">>,
                          corsHeaders))

getSecureDemoPage == TextBody(S("<!DOCTYPE html> CORS Proxy demonstration"))

ForwardedMethods == {"GET", "HEAD", "POST", "PUT", "DELETE"}

MethodNotAllowed ==
  Response(ErrorBody("Method Not Allowed",
                     "Only GET, HEAD, POST, PUT, DELETE methods allowed"),
           405, "",
           [n \in {"Content-Type", "Allow"} |->
              IF n = "Content-Type" THEN S("application/json")
              ELSE <<"GET", ", ", "HEAD", ", ", "POST", ", ", "PUT", ", ", "DELETE", ", ",
                     "OPTIONS">>])

DemoPageResponse ==
  Response(getSecureDemoPage, 200, "", "Content-Type" :> S("text/html;charset=UTF-8"))

\* mutant: the route is recognised without its trailing slash
secureFetch_NoSlash(request) ==
  IF StartsWith(request.url.pathname, <<"/", "corsproxy">>)
  THEN IF request.method = "OPTIONS" THEN Return(handleOptions(request))
       ELSE IF request.method \in ForwardedMethods THEN handleSecureRequest(request)
       ELSE Return(MethodNotAllowed)
  ELSE Return(DemoPageResponse)

\* the routing of the secure worker's fetch(request)
secureFetch(request) ==
  IF StartsWith(request.url.pathname, PROXY_ENDPOINT)
  THEN IF request.method = "OPTIONS" THEN Return(handleOptions(request))
       ELSE IF request.method \in ForwardedMethods THEN handleSecureRequest(request)
       ELSE Return(MethodNotAllowed)
  ELSE Return(DemoPageResponse)

(***************************************************************************)
(* The self-test route of src/src/index.ts: /test-cors runs the forwarder  *)
(* on a fixed request of its own and reports on the response.              *)
(***************************************************************************)
TestPath == <<"/", "test-cors">>

TestTarget == <<"https:", "//", "httpbin.org", "/get">>

testRequest(request) ==
  [url |-> [origin |-> request.url.origin, pathname |-> PROXY_ENDPOINT,
            params |-> "apiurl" :> TestTarget],
   method |-> "GET",
   headers |-> "Origin" :> OrElse(SearchParam(request.url, "origin"),
                                  S("https://evil-site.com")),
   body |-> NULL]

selfTestReport(request, response) ==
  LET simulatedOrigin == OrElse(SearchParam(request.url, "origin"),
                                S("https://evil-site.com"))
      corsHeader == Get(response.headers, "Access-Control-Allow-Origin")
  IN Response(JsonBody({<<"simulatedOrigin", simulatedOrigin>>,
                        <<"corsHeaderPresent",
                          IF Falsy(corsHeader) THEN S("false") ELSE S("true")>>,
                        <<"corsHeaderValue", OrElse(corsHeader, S("None"))>>,
                        <<"responseStatus", S(ToString(response.status))>>}),
              200, "", "Content-Type" :> S("application/json"))

(***************************************************************************)
(* The basic worker of src/unnamed/part_001.                               *)
(***************************************************************************)
API_URL == <<"https:", "//", "httpbin.org", "/json">>

basicCorsHeaders ==
  [n \in {"Access-Control-Allow-Origin", "Access-Control-Allow-Methods",
          "Access-Control-Max-Age"} |->
     CASE n = "Access-Control-Allow-Origin" -> S("*")
       [] n = "Access-Control-Allow-Methods" ->
            <<"GET", ",", "HEAD", ",", "POST", ",", "OPTIONS">>
       [] n = "Access-Control-Max-Age" -> S("86400")]

rawHtmlResponse(html) ==
  Response(html, 200, "", "Content-Type" :> S("text/html;charset=UTF-8"))

DEMO_PAGE == TextBody(S("<!DOCTYPE html> CORS Proxy Test"))

\* handleRequest up to its await; new Request throws on a string that is no URL
handleRequest(request) ==
  LET given == SearchParam(request.url, "apiurl")
      apiUrl == IF given = NULL THEN API_URL ELSE given
      target == ParseURL(apiUrl)
  IN IF ~target.ok THEN Throw
     ELSE Await(Request(apiUrl, request.method,
                        Spread(request.headers,
                               "Origin" :> (IF target.protocol \in SpecialSchemes
                                            THEN URLOrigin(target) ELSE S("null"))),
                        IF request.method # "GET" /\ request.method # "HEAD"
                        THEN request.body ELSE NULL))

\* handleRequest after fetch resolved with response
handleRequestResponse(request, response) ==
  Response(response.body, response.status, response.statusText,
           Spread(response.headers,
                  [n \in {"Access-Control-Allow-Origin", "Vary"} |->
                     IF n = "Vary" THEN S("Origin") ELSE request.url.origin]))

basicHandleOptions(request) ==
  IF /\ Get(request.headers, "Origin") # NULL
     /\ Get(request.headers, "Access-Control-Request-Method") # NULL
     /\ Get(request.headers, "Access-Control-Request-Headers") # NULL
  THEN Response(NullBody, 200, "",
                Spread(basicCorsHeaders,
                       "Access-Control-Allow-Headers" :>
                         Get(request.headers, "Access-Control-Request-Headers")))
  ELSE Response(NullBody, 200, "",
                "Allow" :> <<"GET", ", ", "HEAD", ", ", "POST", ", ", "OPTIONS">>)

\* the routing of the basic worker's fetch(request)
basicFetch(request) ==
  IF StartsWith(request.url.pathname, PROXY_ENDPOINT)
  THEN IF request.method = "OPTIONS" THEN Return(basicHandleOptions(request))
       ELSE IF request.method \in {"GET", "HEAD", "POST"} THEN handleRequest(request)
       ELSE Return(Response(NullBody, 405, "Method Not Allowed", NoHeaders))
  ELSE Return(rawHtmlResponse(DEMO_PAGE))

\* an exception no handler catches: the runtime answers with its error page
UncaughtResponse == Response(TextBody(S("Worker threw exception")), 500, "", NoHeaders)

(***************************************************************************)
(* The three deployments.                                                  *)
(***************************************************************************)
Variants == {"secure", "selftest", "basic"}

SecureVariants == {"secure", "selftest"}

IsSelfTest(v, request) == v = "selftest" /\ request.url.pathname = TestPath

\* the request the forwarder works on
Forwarded(v, request) == IF IsSelfTest(v, request) THEN testRequest(request) ELSE request

\* fetch(request) up to its first await
Fetch(v, request) ==
  IF v = "basic" THEN basicFetch(request)
  ELSE IF IsSelfTest(v, request) THEN handleSecureRequest(testRequest(request))
  ELSE secureFetch(request)

\* the response fetch(request) returns once the forwarder has returned one
Deliver(v, request, response) ==
  IF IsSelfTest(v, request) THEN selfTestReport(request, response) ELSE response

(***************************************************************************)
(* The inputs: inbound requests and upstream behaviours.                   *)
(***************************************************************************)
TrustedOrigin == S("https://yourdomain.com")

UntrustedOrigin == S("https://evil-site.com")

OriginValues == {TrustedOrigin, UntrustedOrigin}

Digits1048576 == <<"1", "0", "4", "8", "5", "7", "6">>

Digits1048577 == <<"1", "0", "4", "8", "5", "7", "7">>

Digits10485760 == <<"1", "0", "4", "8", "5", "7", "6", "0">>

Digits10485761 == <<"1", "0", "4", "8", "5", "7", "6", "1">>

RequestContentLengths ==
  {<<>>, Digits1048576, Digits1048577, Digits1048577 \o <<"b">>, <<"a", "b", "c">>}

TargetValues ==
  {<<>>,
   <<"invalid-url">>,
   <<"https:", "//", "httpbin.org", "/get">>,
   <<"https:", "//", "httpbin.org", ":8443", "/x">>,
   <<"HTTPS:", "//", "HTTPBIN.ORG", "/get">>,
   <<"http:", "//", "httpbin.org", "/get">>,
   <<"https:", "//", "evil.example", "/">>,
   <<"https:", "//", "httpbin.org@", "evil.example", "/">>}

ProxyOrigin == S("https://proxy.example")

Url(pathname, params) == [origin |-> ProxyOrigin, pathname |-> pathname, params |-> params]

\* a header map holding name when value is not NULL
Opt(name, value) == IF value = NULL THEN NoHeaders ELSE name :> value

InboundUrls ==
  {Url(PROXY_ENDPOINT, Opt("apiurl", t)) : t \in TargetValues \cup {NULL}}
  \cup {Url(<<"/", "corsproxy", "/", "v1">>, "apiurl" :> TestTarget),
        Url(<<"/", "corsproxy">>, "apiurl" :> TestTarget),
        Url(<<"/">>, NoHeaders)}
  \cup {Url(TestPath, Opt("origin", o)) : o \in OriginValues \cup {NULL}}

Methods == {"GET", "HEAD", "POST", "PUT", "DELETE", "OPTIONS", "PATCH"}

\* the body a request of each method carries
BodyOf(method) == IF method \in {"POST", "PUT", "PATCH"} THEN S("payload") ELSE NULL

CredentialHeaders ==
  [n \in {"Authorization", "Cookie", "Referer"} |->
     CASE n = "Authorization" -> S("Bearer secret")
       [] n = "Cookie" -> S("sid=1")
       [] n = "Referer" -> S("https://yourdomain.com/page")]

\* the preflight headers come with OPTIONS requests only
PreflightHeaders(method) ==
  IF method = "OPTIONS"
  THEN {Opt("Access-Control-Request-Method", m) @@ Opt("Access-Control-Request-Headers", h) :
          m \in {NULL, S("POST")}, h \in {NULL, <<>>, S("X-Custom")}}
  ELSE {NoHeaders}

InboundHeaders(method) ==
  {Opt("Origin", o) @@ Opt("Content-Length", l) @@ Opt("Content-Type", t) @@ c @@ p :
     o \in OriginValues \cup {NULL},
     l \in RequestContentLengths \cup {NULL},
     t \in {NULL, S("text/plain")},
     c \in {NoHeaders, CredentialHeaders},
     p \in PreflightHeaders(method)}

Requests ==
  UNION {{[url |-> u, method |-> m, headers |-> h, body |-> BodyOf(m)] :
            u \in InboundUrls, h \in InboundHeaders(m)} : m \in Methods}

Statuses == {<<200, "OK">>, <<404, "Not Found">>, <<500, "Internal Server Error">>}

UpstreamBody == TextBody(S("upstream-bytes"))

UpstreamHeaders ==
  {Opt("Content-Type", t) @@ Opt("Content-Length", l) @@ Opt("Set-Cookie", c) :
     t \in {NULL, S("text/html")},
     l \in {NULL, Digits10485760, Digits10485761, Digits10485761 \o <<"b">>},
     c \in {NULL, S("session=upstream")}}

UpstreamResponses ==
  {Response(UpstreamBody, st[1], st[2], h) : st \in Statuses, h \in UpstreamHeaders}

\* the errors fetch rejects with when the transport fails
TransportErrors == {"TypeError"}

NoInbound == [url |-> Url(<<>>, NoHeaders), method |-> "", headers |-> NoHeaders, body |-> NULL]

(***************************************************************************)
(* The state machine of one worker handling one request at a time.         *)
(*   pc       idle, fetching (awaiting fetch), rejected (fetch has thrown, *)
(*            the handler has not resumed), done (response returned)       *)
(*   req      the inbound request;  sub  the request the forwarder handles *)
(*   calls    the outbound requests issued for req                         *)
(*   timer    none, armed, cleared, fired: the setTimeout of the forwarder *)
(*   aborted  controller.signal.aborted                                    *)
(*   err      the name of the error fetch rejected with                    *)
(*   upstream the response fetch resolved with                             *)
(*   resp     the response returned for req                                *)
(*   served   the number of requests answered so far (history)             *)
(*   flights  the requests one worker handles at the same time, each with  *)
(*            the same fields as above; only the interleaved handling      *)
(*            further down uses it                                         *)
(***************************************************************************)
\* the number of requests one run of the model serves
MaxRequests == 2

\* the number of requests one worker handles at the same time
MaxInFlight == 2

Slots == 1 .. MaxInFlight

IdleFlight ==
  [pc |-> "idle", req |-> NoInbound, sub |-> NoInbound, calls |-> <<>>, timer |-> "none",
   aborted |-> FALSE, err |-> "", upstream |-> NoResponse, resp |-> NoResponse]

Init ==
  /\ variant \in Variants
  /\ served = 0
  /\ pc = "idle"
  /\ req = NoInbound
  /\ sub = NoInbound
  /\ calls = <<>>
  /\ timer = "none"
  /\ aborted = FALSE
  /\ err = ""
  /\ upstream = NoResponse
  /\ resp = NoResponse
  /\ flights = [i \in Slots |-> IdleFlight]

\* fetch(request): the synchronous part, up to the response or the awaited fetch
Receive(request) ==
  /\ pc = "idle"
  /\ served < MaxRequests
  /\ LET out == Fetch(variant, request)
     IN /\ req' = request
        /\ sub' = Forwarded(variant, request)
        /\ pc' = IF out.kind = "await" THEN "fetching" ELSE "done"
        /\ calls' = IF out.kind = "await" THEN <<out.call>> ELSE <<>>
        /\ timer' = IF out.kind = "await" /\ variant \in SecureVariants
                    THEN "armed" ELSE "none"
        /\ resp' = CASE out.kind = "return" -> Deliver(variant, request, out.response)
                     [] out.kind = "throw" -> UncaughtResponse
                     [] OTHER -> NoResponse
  /\ UNCHANGED <<variant, aborted, err, upstream, served>>
  /\ UNCHANGED flights

\* fetch resolves with the upstream's response; the handler resumes after await
UpstreamRespond(response) ==
  /\ pc = "fetching"
  /\ upstream' = response
  /\ timer' = IF timer = "armed" THEN "cleared" ELSE timer
  /\ resp' = IF variant = "basic" THEN handleRequestResponse(sub, response)
             ELSE Deliver(variant, req, handleSecureResponse(sub, response))
  /\ pc' = "done"
  /\ UNCHANGED <<variant, req, sub, calls, aborted, err, served>>
  /\ UNCHANGED flights

\* fetch rejects with a transport error
UpstreamFail(errorName) ==
  /\ pc = "fetching"
  /\ err' = errorName
  /\ pc' = "rejected"
  /\ UNCHANGED <<variant, req, sub, calls, timer, aborted, upstream, resp, served>>
  /\ UNCHANGED flights

\* mutant: a timer that fires after the response answers the request again
TimerFire_SecondResponse ==
  /\ timer = "armed"
  /\ pc \in {"fetching", "done"}
  /\ timer' = "fired"
  /\ aborted' = TRUE
  /\ IF pc = "fetching"
     THEN pc' = "rejected" /\ err' = "AbortError" /\ UNCHANGED resp
     ELSE /\ resp' = Deliver(variant, req, handleSecureCatch(sub, "AbortError"))
          /\ UNCHANGED <<pc, err>>
  /\ UNCHANGED <<variant, req, sub, calls, upstream, served>>
  /\ UNCHANGED flights

\* the 10 second timer fires: controller.abort() rejects a pending fetch
TimerFire ==
  /\ timer = "armed"
  /\ pc \in {"fetching", "done"}
  /\ timer' = "fired"
  /\ aborted' = TRUE
  /\ IF pc = "fetching"
     THEN pc' = "rejected" /\ err' = "AbortError"
     ELSE UNCHANGED <<pc, err>>
  /\ UNCHANGED <<variant, req, sub, calls, upstream, resp, served>>
  /\ UNCHANGED flights

\* mutant: the first failure is answered by a second attempt
Catch_Retry ==
  /\ pc = "rejected"
  /\ IF Len(calls) < 2
     THEN /\ calls' = Append(calls, calls[1])
          /\ pc' = "fetching"
          /\ err' = ""
          /\ UNCHANGED resp
     ELSE /\ resp' = IF variant = "basic" THEN UncaughtResponse
                     ELSE Deliver(variant, req, handleSecureCatch(sub, err))
          /\ pc' = "done"
          /\ UNCHANGED <<calls, err>>
  /\ UNCHANGED <<variant, req, sub, timer, aborted, upstream, served>>
  /\ UNCHANGED flights

\* the handler resumes in its catch block, or the exception reaches the runtime
Catch ==
  /\ pc = "rejected"
  /\ resp' = IF variant = "basic" THEN UncaughtResponse
             ELSE Deliver(variant, req, handleSecureCatch(sub, err))
  /\ pc' = "done"
  /\ UNCHANGED <<variant, req, sub, calls, timer, aborted, err, upstream, served>>
  /\ UNCHANGED flights

\* the response has been sent; the worker takes the next request
Close ==
  /\ pc = "done"
  /\ pc' = "idle"
  /\ req' = NoInbound
  /\ sub' = NoInbound
  /\ calls' = <<>>
  /\ timer' = "none"
  /\ aborted' = FALSE
  /\ err' = ""
  /\ upstream' = NoResponse
  /\ resp' = NoResponse
  /\ served' = served + 1
  /\ UNCHANGED variant
  /\ UNCHANGED flights

Next ==
  \/ pc = "idle" /\ \E request \in Requests : Receive(request)
  \/ pc = "fetching" /\ \E response \in UpstreamResponses : UpstreamRespond(response)
  \/ pc = "fetching" /\ \E errorName \in TransportErrors : UpstreamFail(errorName)
  \/ TimerFire
  \/ Catch
  \/ Close

Spec == Init /\ [][Next]_vars

\* the event loop runs the continuation of a rejected fetch
FairSpec == Spec /\ WF_vars(Catch)

\* the outbound call resolves, with a response or a failure, or the timer fires
Resolve ==
  \/ pc = "fetching" /\ \E response \in UpstreamResponses : UpstreamRespond(response)
  \/ pc = "fetching" /\ \E errorName \in TransportErrors : UpstreamFail(errorName)
  \/ TimerFire

\* the requests that carry no header besides Origin and Content-Length
LiveRequests ==
  {r \in Requests : DOMAIN r.headers \subseteq {"Origin", "Content-Length"}}

LiveNext ==
  \/ pc = "idle" /\ \E request \in LiveRequests : Receive(request)
  \/ Resolve
  \/ Catch
  \/ Close

\* every outbound call resolves or is timed out, and the continuation runs
LiveSpec == Init /\ [][LiveNext]_vars /\ WF_vars(Resolve) /\ WF_vars(Catch)

(***************************************************************************)
(* One worker handling several requests at the same time: every request    *)
(* has a flight of its own, and the steps of the flights interleave. Each  *)
(* step is the step of the state machine above, taken on one flight: the   *)
(* AbortController, the timer and the allow-lists are locals of one        *)
(* invocation of fetch(request).                                           *)
(***************************************************************************)
ConcRequests ==
  {r \in Requests :
     /\ r.method \in {"GET", "POST"}
     /\ r.url.pathname = PROXY_ENDPOINT
     /\ SearchParam(r.url, "apiurl") \in {TestTarget, <<"https:", "//", "evil.example", "/">>}
     /\ DOMAIN r.headers \subseteq {"Origin"}
     /\ Get(r.headers, "Origin") \in {TrustedOrigin, NULL}}

ConcResponses ==
  {r \in UpstreamResponses :
     /\ r.status \in {200, 500}
     /\ DOMAIN r.headers \subseteq {"Content-Length"}
     /\ Get(r.headers, "Content-Length") \in {NULL, Digits10485761}}

\* the requests received so far
Received == served + Cardinality({i \in Slots : flights[i].pc # "idle"})

\* fetch(request) on flight i: the synchronous part
ConcReceive(i, request) ==
  /\ flights[i].pc = "idle"
  /\ Received < MaxRequests
  /\ LET out == Fetch(variant, request)
     IN flights' =
          [flights EXCEPT ![i] =
             [pc |-> IF out.kind = "await" THEN "fetching" ELSE "done",
              req |-> request,
              sub |-> Forwarded(variant, request),
              calls |-> IF out.kind = "await" THEN <<out.call>> ELSE <<>>,
              timer |-> IF out.kind = "await" /\ variant \in SecureVariants
                        THEN "armed" ELSE "none",
              aborted |-> FALSE,
              err |-> "",
              upstream |-> NoResponse,
              resp |-> CASE out.kind = "return" -> Deliver(variant, request, out.response)
                         [] out.kind = "throw" -> UncaughtResponse
                         [] OTHER -> NoResponse]]
  /\ UNCHANGED <<variant, pc, req, sub, calls, timer, aborted, err, upstream, resp, served>>

\* mutant: a response is marked when the same request was answered before
ConcUpstreamRespond_Cached(i, response) ==
  /\ flights[i].pc = "fetching"
  /\ LET answer == IF variant = "basic"
                   THEN handleRequestResponse(flights[i].sub, response)
                   ELSE Deliver(variant, flights[i].req,
                                handleSecureResponse(flights[i].sub, response))
         seen == \E j \in Slots : flights[j].pc = "done" /\ flights[j].req = flights[i].req
     IN flights' =
          [flights EXCEPT ![i] =
             [@ EXCEPT !.upstream = response,
                       !.timer = IF @ = "armed" THEN "cleared" ELSE @,
                       !.resp = IF seen
                                THEN [answer EXCEPT !.headers =
                                        Spread(@, "X-Cache" :> S("HIT"))]
                                ELSE answer,
                       !.pc = "done"]]
  /\ UNCHANGED <<variant, pc, req, sub, calls, timer, aborted, err, upstream, resp, served>>

\* the fetch of flight i resolves with the upstream's response
ConcUpstreamRespond(i, response) ==
  /\ flights[i].pc = "fetching"
  /\ flights' =
       [flights EXCEPT ![i] =
          [@ EXCEPT !.upstream = response,
                    !.timer = IF @ = "armed" THEN "cleared" ELSE @,
                    !.resp = IF variant = "basic"
                             THEN handleRequestResponse(flights[i].sub, response)
                             ELSE Deliver(variant, flights[i].req,
                                          handleSecureResponse(flights[i].sub, response)),
                    !.pc = "done"]]
  /\ UNCHANGED <<variant, pc, req, sub, calls, timer, aborted, err, upstream, resp, served>>

\* the fetch of flight i rejects with a transport error
ConcUpstreamFail(i, errorName) ==
  /\ flights[i].pc = "fetching"
  /\ flights' = [flights EXCEPT ![i] = [@ EXCEPT !.err = errorName, !.pc = "rejected"]]
  /\ UNCHANGED <<variant, pc, req, sub, calls, timer, aborted, err, upstream, resp, served>>

\* mutant: one AbortController is shared by all flights
ConcTimerFire_SharedController(i) ==
  /\ flights[i].timer = "armed"
  /\ flights[i].pc \in {"fetching", "done"}
  /\ flights' =
       [j \in Slots |->
          [flights[j] EXCEPT
             !.timer = IF j = i THEN "fired" ELSE @,
             !.aborted = IF flights[j].pc = "idle" THEN @ ELSE TRUE,
             !.pc = IF @ = "fetching" THEN "rejected" ELSE @,
             !.err = IF flights[j].pc = "fetching" THEN "AbortError" ELSE @]]
  /\ UNCHANGED <<variant, pc, req, sub, calls, timer, aborted, err, upstream, resp, served>>

\* the timer of flight i fires: its controller aborts its fetch
ConcTimerFire(i) ==
  /\ flights[i].timer = "armed"
  /\ flights[i].pc \in {"fetching", "done"}
  /\ flights' =
       [flights EXCEPT ![i] =
          [@ EXCEPT !.timer = "fired",
                    !.aborted = TRUE,
                    !.pc = IF @ = "fetching" THEN "rejected" ELSE @,
                    !.err = IF flights[i].pc = "fetching" THEN "AbortError" ELSE @]]
  /\ UNCHANGED <<variant, pc, req, sub, calls, timer, aborted, err, upstream, resp, served>>

\* the handler of flight i resumes in its catch block
ConcCatch(i) ==
  /\ flights[i].pc = "rejected"
  /\ flights' =
       [flights EXCEPT ![i] =
          [@ EXCEPT !.resp = IF variant = "basic" THEN UncaughtResponse
                             ELSE Deliver(variant, flights[i].req,
                                          handleSecureCatch(flights[i].sub, flights[i].err)),
                    !.pc = "done"]]
  /\ UNCHANGED <<variant, pc, req, sub, calls, timer, aborted, err, upstream, resp, served>>

\* the response of flight i has been sent
ConcClose(i) ==
  /\ flights[i].pc = "done"
  /\ flights' = [flights EXCEPT ![i] = IdleFlight]
  /\ served' = served + 1
  /\ UNCHANGED <<variant, pc, req, sub, calls, timer, aborted, err, upstream, resp>>

ConcNext ==
  \E i \in Slots :
    \/ \E request \in ConcRequests : ConcReceive(i, request)
    \/ \E response \in ConcResponses : ConcUpstreamRespond(i, response)
    \/ \E errorName \in TransportErrors : ConcUpstreamFail(i, errorName)
    \/ ConcTimerFire(i)
    \/ ConcCatch(i)
    \/ ConcClose(i)

ConcSpec == Init /\ [][ConcNext]_vars

(***************************************************************************)
(* The target check on its own: the secure workers receive GET requests on *)
(* the proxy route whose apiurl ranges over the strings built from every   *)
(* scheme, userinfo, host, port and remainder, and over strings that are   *)
(* no absolute URL.                                                        *)
(***************************************************************************)
TargetRests == {<<>>, <<"/x">>, <<"?q=1">>, <<"#frag">>}

OptTok(tokens) == {<<>>} \cup {<<t>> : t \in tokens}

\* scheme, optional slashes, optional userinfo, host, optional port, remainder
SpecialTargets ==
  {<<sc>> \o sl \o ui \o <<h>> \o p \o r :
     sc \in {t \in SchemeTokens : Lower(t) \in SpecialSchemes},
     sl \in {<<>>, <<"//">>},
     ui \in OptTok(UserinfoTokens),
     h \in HostTokens,
     p \in OptTok(PortTokens),
     r \in TargetRests}

\* strings without a host, without a scheme, or of a scheme that has no host
OtherTargets ==
  {<<>>, <<"invalid-url">>}
  \cup {<<sc>> \o sl : sc \in {t \in SchemeTokens : Lower(t) \in SpecialSchemes},
                       sl \in {<<>>, <<"//">>}}
  \cup {<<sc>> \o r : sc \in SchemeTokens \ {t \in SchemeTokens : Lower(t) \in SpecialSchemes},
                      r \in TargetRests}
  \cup {<<h>> \o r : h \in HostTokens, r \in TargetRests}

TargetStrings == SpecialTargets \cup OtherTargets

TargetRequests ==
  {Request(Url(PROXY_ENDPOINT, Opt("apiurl", t)), "GET", NoHeaders, NULL) :
     t \in TargetStrings \cup {NULL}}

TargetInit == Init /\ variant \in SecureVariants

TargetNext ==
  \/ pc = "idle" /\ \E request \in TargetRequests : Receive(request)
  \/ pc = "fetching" /\ \E response \in UpstreamResponses : UpstreamRespond(response)
  \/ pc = "fetching" /\ \E errorName \in TransportErrors : UpstreamFail(errorName)
  \/ TimerFire
  \/ Catch
  \/ Close

TargetSpec == TargetInit /\ [][TargetNext]_vars

(***************************************************************************)
(* The vocabulary of the properties, stated from the specification and not *)
(* through the worker's own helpers.                                       *)
(***************************************************************************)
OnProxyRoute(request) == StartsWith(request.url.pathname, <<"/", "corsproxy", "/">>)

ProxyMethods == {"GET", "HEAD", "POST", "PUT", "DELETE"}

\* a request of the secure worker that its dispatcher hands to the forwarder
SecureProxied ==
  /\ variant \in SecureVariants
  /\ pc # "idle"
  /\ OnProxyRoute(req)
  /\ req.method \in ProxyMethods

HasTarget(request) == "apiurl" \in DOMAIN request.url.params

TargetOf(request) == request.url.params["apiurl"]

AllowedPairs ==
  {<<"https:", "httpbin.org">>, <<"https:", "api.example.com">>,
   <<"https:", "trusted-api.com">>}

\* the target is present, an absolute URL, and its (scheme, host) is allow-listed
TargetAllowed(request) ==
  /\ HasTarget(request)
  /\ ParseURL(TargetOf(request)).ok
  /\ <<ParseURL(TargetOf(request)).protocol, ParseURL(TargetOf(request)).hostname>>
       \in AllowedPairs

\* the value of a string of decimal digits, -1 for any other string
RECURSIVE DecimalValue(_, _)
DecimalValue(str, acc) ==
  IF str = <<>> THEN acc
  ELSE IF Head(str) \in {"0", "1", "2", "3", "4", "5", "6", "7", "8", "9"}
  THEN DecimalValue(Tail(str), acc * 10 + DigitValue(Head(str)))
  ELSE -1

\* the headers declare a Content-Length greater than limit
DeclaresMoreThan(headers, limit) ==
  /\ "Content-Length" \in DOMAIN headers
  /\ headers["Content-Length"] # <<>>
  /\ DecimalValue(headers["Content-Length"], 0) > limit

MiB == 1048576

Answered(status) == pc = "done" /\ resp.status = status

(***************************************************************************)
(* C1: a request handed to the forwarder whose apiurl target does not      *)
(* match the (scheme, host) of an ALLOWED_APIS entry is answered 403, and  *)
(* no outbound fetch is issued at any point of its handling.               *)
(***************************************************************************)
C1_DisallowedTarget403 ==
  (SecureProxied /\ ~TargetAllowed(req)) => (Answered(403) /\ calls = <<>>)

\* a well-formed target on an allow-listed host with another scheme was refused
C1_Witness ==
  /\ SecureProxied
  /\ HasTarget(req)
  /\ ParseURL(TargetOf(req)).ok
  /\ ParseURL(TargetOf(req)).hostname = "httpbin.org"
  /\ ~TargetAllowed(req)
  /\ Answered(403)

(***************************************************************************)
(* C2: every proxy-route request without an apiurl query parameter is      *)
(* answered 403; no default target is substituted and forwarded. Stated    *)
(* for the methods every deployment forwards.                              *)
(***************************************************************************)
C2_MissingTarget403 ==
  (/\ pc # "idle"
   /\ OnProxyRoute(req)
   /\ req.method \in {"GET", "HEAD", "POST"}
   /\ ~HasTarget(req)) => (Answered(403) /\ calls = <<>>)

(***************************************************************************)
(* C3: a request handed to the forwarder whose apiurl is present but does  *)
(* not parse as an absolute URL is answered 400.                           *)
(***************************************************************************)
C3_MalformedTarget400 ==
  (SecureProxied /\ HasTarget(req) /\ ~ParseURL(TargetOf(req)).ok) => Answered(400)

(***************************************************************************)
(* C4: a request handed to the forwarder that declares a Content-Length    *)
(* greater than 1 MiB is answered 413 and causes no outbound fetch,        *)
(* whatever its target.                                                    *)
(***************************************************************************)
C4_Oversize413 ==
  (SecureProxied /\ DeclaresMoreThan(req.headers, MiB)) =>
    (Answered(413) /\ calls = <<>>)

(***************************************************************************)
(* C4 as amended: such a request causes no outbound fetch whatever its     *)
(* target, and is answered 413 when its target is allow-listed; when the   *)
(* target is not, the target check has answered 403 before the size check. *)
(***************************************************************************)
C4_Oversize413IfAllowed ==
  (SecureProxied /\ DeclaresMoreThan(req.headers, MiB)) =>
    /\ calls = <<>>
    /\ Answered(IF TargetAllowed(req) THEN 413 ELSE 403)

C4_Witness ==
  /\ SecureProxied
  /\ DeclaresMoreThan(req.headers, MiB)
  /\ TargetAllowed(req)
  /\ Answered(413)

(***************************************************************************)
(* C5: when the timer fires while the upstream has not responded, the      *)
(* outbound call is aborted, the only thing the handler then does is       *)
(* return 504 (never 502), and it does return (no hang).                   *)
(***************************************************************************)
TimedOut == SecureProxied /\ pc = "rejected" /\ timer = "fired"

C5_Timeout504 ==
  /\ [][(SecureProxied /\ pc = "fetching" /\ timer' = "fired") =>
          (aborted' /\ pc' = "rejected" /\ err' = "AbortError")]_vars
  /\ [][TimedOut => (pc' = "done" /\ resp'.status = 504 /\ req' = req)]_vars
  /\ (TimedOut ~> (pc = "done"))

C5_Witness == SecureProxied /\ timer = "fired" /\ aborted /\ Answered(504)

(***************************************************************************)
(* C6: when the outbound call fails, the answer is 502 unless the failure  *)
(* is the abort the timer triggered, and 504 exactly in that case.         *)
(***************************************************************************)
C6_FailureStatus ==
  (SecureProxied /\ pc = "done" /\ err # "") =>
    /\ (err # "AbortError" \/ timer # "fired") => resp.status = 502
    /\ resp.status = 504 <=> (err = "AbortError" /\ timer = "fired")

C6_Witness == SecureProxied /\ err = "TypeError" /\ Answered(502)

(***************************************************************************)
(* C7: whenever the upstream of a forwarded request responds, the          *)
(* gateway's response has the upstream's status, status text and body.     *)
(***************************************************************************)
UpstreamResponded == pc = "done" /\ upstream # NoResponse

SameAsUpstream ==
  /\ resp.status = upstream.status
  /\ resp.statusText = upstream.statusText
  /\ resp.body = upstream.body

C7_PassThrough == (SecureProxied /\ UpstreamResponded) => SameAsUpstream

(***************************************************************************)
(* C7 as amended: whenever the upstream of a forwarded request responds    *)
(* and its Content-Length header is absent or, read as parseInt reads it   *)
(* (the leading integer), not greater than 10 MiB, the gateway's response  *)
(* has the upstream's status, status text and body.                        *)
(***************************************************************************)
ReadsMoreThan(headers, limit) ==
  /\ "Content-Length" \in DOMAIN headers
  /\ NumGreater(parseInt(headers["Content-Length"]), limit)

C7_PassThroughWithinLimit ==
  (SecureProxied /\ UpstreamResponded /\ ~ReadsMoreThan(upstream.headers, 10 * MiB))
    => SameAsUpstream

C7_Witness ==
  /\ SecureProxied
  /\ UpstreamResponded
  /\ upstream.status = 404
  /\ "Content-Length" \in DOMAIN upstream.headers
  /\ Answered(404)

(***************************************************************************)
(* C8: the header names of every proxied success response are among        *)
(* Content-Type, Content-Length, the four Access-Control-Allow headers and *)
(* Vary; no other header of the upstream appears.                          *)
(***************************************************************************)
SafeResponseHeaders ==
  {"Content-Type", "Content-Length", "Access-Control-Allow-Origin",
   "Access-Control-Allow-Methods", "Access-Control-Allow-Headers",
   "Access-Control-Max-Age", "Vary"}

C8_ResponseHeadersReduced ==
  (/\ OnProxyRoute(req)
   /\ UpstreamResponded
   /\ resp.body = upstream.body) => DOMAIN resp.headers \subseteq SafeResponseHeaders

(***************************************************************************)
(* C9: every outbound request has the inbound request's method and body,   *)
(* and exactly the headers Content-Type and User-Agent, the latter the     *)
(* fixed 'SecureCorsProxy/1.0'; Authorization, Cookie, Origin and Referer  *)
(* are never forwarded. Stated for the requests of the proxy route (the    *)
(* self-test route issues a GET whatever the inbound method is).           *)
(***************************************************************************)
C9_OutboundReduced ==
  \A i \in 1..Len(calls) : OnProxyRoute(req) =>
    /\ calls[i].method = req.method
    /\ calls[i].body = req.body
    /\ DOMAIN calls[i].headers = {"Content-Type", "User-Agent"}
    /\ calls[i].headers["User-Agent"] = S("SecureCorsProxy/1.0")

(***************************************************************************)
(* C10: every response to a request whose Origin is in ALLOWED_ORIGINS has *)
(* Access-Control-Allow-Origin equal to that origin and Vary: Origin.      *)
(* Stated for the workers that have an ALLOWED_ORIGINS list and for the    *)
(* responses of the proxy route (the demo page and the self-test report    *)
(* carry no cross-origin header either).                                   *)
(***************************************************************************)
TrustedOrigins ==
  {S("https://yourdomain.com"), S("https://app.yourdomain.com"),
   S("https://staging.yourdomain.com")}

C10_TrustedOriginEchoed ==
  (/\ variant \in SecureVariants
   /\ pc = "done"
   /\ OnProxyRoute(req)
   /\ "Origin" \in DOMAIN req.headers
   /\ req.headers["Origin"] \in TrustedOrigins) =>
    /\ Get(resp.headers, "Access-Control-Allow-Origin") = req.headers["Origin"]
    /\ Get(resp.headers, "Vary") = S("Origin")

(***************************************************************************)
(* C11: for a request whose Origin is absent or not in ALLOWED_ORIGINS, a  *)
(* proxied success response carries none of the cross-origin headers, and  *)
(* every error response the gateway generates has a JSON body.             *)
(***************************************************************************)
CorsHeaderNames ==
  {"Access-Control-Allow-Origin", "Access-Control-Allow-Methods",
   "Access-Control-Allow-Headers", "Access-Control-Max-Age", "Vary"}

OriginTrusted(request) ==
  "Origin" \in DOMAIN request.headers /\ request.headers["Origin"] \in TrustedOrigins

\* the response is the upstream's, passed through
ProxiedSuccess == UpstreamResponded /\ resp.body = upstream.body

ErrorStatuses == {400, 403, 405, 413, 502, 504}

\* the response is an error of the gateway's own making
GatewayError == pc = "done" /\ ~ProxiedSuccess /\ resp.status \in ErrorStatuses

C11_NoCorsForUntrusted ==
  (variant \in SecureVariants /\ OnProxyRoute(req) /\ ~OriginTrusted(req)) =>
    /\ (req.method \in ProxyMethods /\ ProxiedSuccess) =>
         DOMAIN resp.headers \cap CorsHeaderNames = {}
    /\ GatewayError => resp.body.kind = "json"

C11_Witness ==
  /\ SecureProxied
  /\ Get(req.headers, "Origin") = UntrustedOrigin
  /\ ProxiedSuccess
  /\ DOMAIN resp.headers = {"Content-Type", "Content-Length"}

(***************************************************************************)
(* C12: a forwarded (non-OPTIONS) request is never refused for its origin: *)
(* the same request with any other Origin header, meeting the same         *)
(* upstream behaviour, gets the same decision on the outbound call, the    *)
(* same outbound request, and the same response status and body.           *)
(***************************************************************************)
WithOrigin(request, o) ==
  [request EXCEPT !.headers =
     Opt("Origin", o) @@ [n \in DOMAIN request.headers \ {"Origin"} |-> request.headers[n]]]

OtherOrigins == TrustedOrigins \cup {UntrustedOrigin, NULL, <<>>}

SameStatusAndBody(a, b) == a.status = b.status /\ a.body = b.body

C12_OriginNeverRejects ==
  SecureProxied =>
    \A o \in OtherOrigins :
      LET alt == WithOrigin(req, o)
          out == Fetch(variant, alt)
      IN /\ (out.kind = "await") <=> (calls # <<>>)
         /\ calls # <<>> => out.call = calls[1]
         /\ (pc = "done" /\ calls = <<>>) => SameStatusAndBody(out.response, resp)
         /\ (pc = "done" /\ upstream # NoResponse) =>
              SameStatusAndBody(handleSecureResponse(alt, upstream), resp)
         /\ (pc = "done" /\ err # "") =>
              SameStatusAndBody(handleSecureCatch(alt, err), resp)

C12_Witness ==
  /\ SecureProxied
  /\ Get(req.headers, "Origin") = UntrustedOrigin
  /\ ProxiedSuccess
  /\ Len(calls) = 1
  /\ Answered(200)

(***************************************************************************)
(* C13: an OPTIONS request on the proxy route that carries                 *)
(* Access-Control-Request-Method is answered without a body, and the       *)
(* response's Access-Control-Allow-Headers is the request's                *)
(* Access-Control-Request-Headers, or Content-Type when the request has    *)
(* none.  Stated here for the requests whose Origin is not an untrusted    *)
(* one and whose Access-Control-Request-Headers is absent or not empty:    *)
(* the basic worker answers an Allow header instead when Origin or         *)
(* Access-Control-Request-Headers is absent.  (For an untrusted Origin the *)
(* secure workers answer 200 with no header at all.)                       *)
(***************************************************************************)
Preflight(request) ==
  /\ OnProxyRoute(request)
  /\ request.method = "OPTIONS"
  /\ "Access-Control-Request-Method" \in DOMAIN request.headers

OriginUntrusted(request) ==
  ~Falsy(Get(request.headers, "Origin")) /\ ~OriginTrusted(request)

C13_PreflightMirrorsHeaders ==
  (/\ pc # "idle"
   /\ Preflight(req)
   /\ ~OriginUntrusted(req)
   /\ Get(req.headers, "Access-Control-Request-Headers") # <<>>) =>
    /\ pc = "done"
    /\ resp.body = NullBody
    /\ Get(resp.headers, "Access-Control-Allow-Headers") =
         IF "Access-Control-Request-Headers" \in DOMAIN req.headers
         THEN req.headers["Access-Control-Request-Headers"]
         ELSE S("Content-Type")

(***************************************************************************)
(* C14: an OPTIONS request on the proxy route without                      *)
(* Access-Control-Request-Method is answered with an Allow header and      *)
(* nothing else (no cross-origin header, no body), and Allow lists exactly *)
(* the methods the proxy route supports, that is, the methods the          *)
(* dispatcher does not answer 405.  Stated here for the secure workers and *)
(* a request without Origin, where the response does carry Allow alone.    *)
(***************************************************************************)
\* the methods a header value lists
MethodList(value) == {value[i] : i \in DOMAIN value} \ {", ", ","}

Refused(out) == out.kind = "return" /\ out.response.status = 405

\* the methods the dispatcher of deployment v accepts for the path of request
Supported(v, request) ==
  {m \in Methods : ~Refused(Fetch(v, [request EXCEPT !.method = m]))}

C14_AllowListsSupported ==
  (/\ variant \in SecureVariants
   /\ pc # "idle"
   /\ OnProxyRoute(req)
   /\ req.method = "OPTIONS"
   /\ "Access-Control-Request-Method" \notin DOMAIN req.headers
   /\ "Origin" \notin DOMAIN req.headers) =>
    /\ pc = "done"
    /\ resp.body = NullBody
    /\ DOMAIN resp.headers = {"Allow"}
    /\ MethodList(resp.headers["Allow"]) = Supported(variant, req)

(***************************************************************************)
(* C15: a request on the proxy route whose method is neither OPTIONS nor   *)
(* one the deployment forwards is answered 405 with an Allow header, and   *)
(* no outbound call is made.                                               *)
(***************************************************************************)
Accepted(v) == IF v = "basic" THEN {"GET", "HEAD", "POST"} ELSE ForwardedMethods

C15_OtherMethods405 ==
  (/\ pc # "idle"
   /\ OnProxyRoute(req)
   /\ req.method \notin Accepted(variant) \cup {"OPTIONS"}) =>
    /\ Answered(405)
    /\ "Allow" \in DOMAIN resp.headers
    /\ calls = <<>>

(***************************************************************************)
(* C16: every error response of the gateway's own making (400, 403, 405,   *)
(* 413, 502, 504) has a JSON object body with an error and a message       *)
(* field, and no part of it is the upstream's body.                        *)
(***************************************************************************)
Fields(body) == {f[1] : f \in body.obj}

C16_ErrorsAreJson ==
  (OnProxyRoute(req) /\ GatewayError) =>
    /\ resp.body.kind = "json"
    /\ {"error", "message"} \subseteq Fields(resp.body)
    /\ upstream # NoResponse =>
         /\ resp.body.data # upstream.body.data
         /\ \A f \in resp.body.obj : f[2] # upstream.body.data

(***************************************************************************)
(* C17: when the upstream's response declares a Content-Length above       *)
(* 10 MiB (10485760), the answer is 502 with the gateway's JSON error, and *)
(* neither the upstream's body nor its status reaches the caller.          *)
(***************************************************************************)
C17_OversizeResponse502 ==
  (SecureProxied /\ UpstreamResponded /\ DeclaresMoreThan(upstream.headers, 10 * MiB)) =>
    /\ Answered(502)
    /\ resp.body.kind = "json"
    /\ {"error", "message"} \subseteq Fields(resp.body)
    /\ resp.body # upstream.body
    /\ resp.status # upstream.status

C17_Witness ==
  /\ SecureProxied
  /\ UpstreamResponded
  /\ Get(upstream.headers, "Content-Length") = Digits10485761
  /\ upstream.status = 200
  /\ Answered(502)

(***************************************************************************)
(* C18: at most one outbound call is issued for an inbound request; a      *)
(* failure or a timeout of that call is answered 502 or 504, never by a    *)
(* second attempt.                                                         *)
(***************************************************************************)
C18_SingleAttempt ==
  /\ Len(calls) <= 1
  /\ (SecureProxied /\ pc = "done" /\ err # "") =>
       /\ resp.status \in {502, 504}
       /\ Len(calls) = 1

C18_Witness ==
  /\ SecureProxied
  /\ err = "TypeError"
  /\ Answered(502)
  /\ Len(calls) = 1

(***************************************************************************)
(* C19: a request whose path does not start with /corsproxy/ is answered   *)
(* with the static HTML demo page (Content-Type text/html); the forwarder  *)
(* is not invoked and no outbound call is made.                            *)
(***************************************************************************)
DemoPages == {getSecureDemoPage, DEMO_PAGE}

StaticPage ==
  /\ pc = "done"
  /\ resp.status = 200
  /\ resp.body \in DemoPages
  /\ Get(resp.headers, "Content-Type") = S("text/html;charset=UTF-8")
  /\ calls = <<>>
  /\ timer = "none"

\* as claimed: violated by the /test-cors route of the self-test worker
C19_OtherPathsStatic == (pc # "idle" /\ ~OnProxyRoute(req)) => StaticPage

\* as the code has it: /test-cors of the self-test worker is the one exception
C19_OtherPathsStaticButSelfTest ==
  (pc # "idle" /\ ~OnProxyRoute(req)) =>
    IF IsSelfTest(variant, req)
    THEN /\ Len(calls) = 1
         /\ calls[1].url = TestTarget
         /\ calls[1].method = "GET"
         /\ pc = "done" => (resp.status = 200 /\ resp.body.kind = "json")
    ELSE StaticPage

C19_Witness ==
  /\ pc = "done"
  /\ variant \in SecureVariants
  /\ req.url.pathname = <<"/", "corsproxy">>
  /\ req.method = "POST"
  /\ StaticPage

(***************************************************************************)
(* C20: in the race of the outbound call with the 10 second timer the      *)
(* loser is cancelled as soon as either side resolves: once the call has   *)
(* resolved, with a response or with a failure that is no timeout, the     *)
(* timer is cancelled before the response is returned; when the timer      *)
(* fires first the call is aborted; and the timer never fires for a        *)
(* request whose call has already resolved.                                *)
(***************************************************************************)
CallResolved == upstream # NoResponse \/ (err # "" /\ err # "AbortError")

C20_LoserCancelled ==
  (variant \in SecureVariants /\ calls # <<>>) =>
    /\ (pc = "done" /\ CallResolved) => timer = "cleared"
    /\ err = "AbortError" => (timer = "fired" /\ aborted)
    /\ timer = "fired" => ~CallResolved

(***************************************************************************)
(* C21: validateApiUrl returns true exactly when the target is present,    *)
(* parses as an absolute URL, and its scheme and host (the hostname) are   *)
(* those of an ALLOWED_APIS entry; it returns false for every other input  *)
(* and never throws: the request is then answered 403.                     *)
(***************************************************************************)
C21_ValidateApiUrlExact ==
  SecureProxied =>
    LET apiUrl == SearchParam(req.url, "apiurl")
    IN /\ validateApiUrl(apiUrl) \in BOOLEAN
       /\ validateApiUrl(apiUrl) <=> TargetAllowed(req)
       /\ ~TargetAllowed(req) => (Answered(403) /\ calls = <<>>)
       /\ TargetAllowed(req) => calls = <<Request(apiUrl, "GET", calls[1].headers, NULL)>>

C21_Witness ==
  /\ SecureProxied
  /\ SearchParam(req.url, "apiurl") = <<"HTTPS:", "HTTPBIN.ORG", "?q=1">>
  /\ pc = "fetching"

(***************************************************************************)
(* C27: validateApiUrl compares the protocol and the hostname only: a      *)
(* target gets the verdict of the target that is left when its userinfo,   *)
(* port, path, query and fragment are taken away, so two targets that      *)
(* differ in these only get the same verdict; and a target on an           *)
(* allow-listed hostname with a non-default port is accepted and forwarded *)
(* to that port.                                                           *)
(***************************************************************************)
IsSchemeOrHost(tok) == tok \in SchemeTokens \cup HostTokens \cup {"//"}

\* the target without userinfo, port, path, query and fragment
SchemeAndHost(target) == SelectSeq(target, IsSchemeOrHost)

AllowListed(target) ==
  /\ ParseURL(target).ok
  /\ <<ParseURL(target).protocol, ParseURL(target).hostname>> \in AllowedPairs

C24_NeverOpenProxy ==
  \A i \in DOMAIN calls :
    /\ AllowListed(calls[i].url)
    /\ \/ IsSelfTest(variant, req) /\ calls[i].url = TestTarget
       \/ /\ req.method \in ProxyMethods
          /\ ~DeclaresMoreThan(req.headers, MiB)

(***************************************************************************)
(* C26: the checks of a forwarded request run in a fixed order, target,    *)
(* declared request size, outbound call, declared response size, and the   *)
(* first one that fails decides the response: a target that is not         *)
(* allow-listed gets 403 also when the Content-Length exceeds 1 MiB, an    *)
(* allow-listed one with such a Content-Length gets 413, neither makes a   *)
(* call, and the response-size 502 occurs only after exactly one outbound  *)
(* call has resolved with a response.                                      *)
(***************************************************************************)
ResponseTooLarge ==
  pc = "done" /\ resp.status = 502 /\ <<"error", S("Response Too Large")>> \in resp.body.obj

C26_CheckOrder ==
  SecureProxied =>
    /\ ~TargetAllowed(req) => (Answered(403) /\ calls = <<>>)
    /\ (TargetAllowed(req) /\ DeclaresMoreThan(req.headers, MiB)) =>
         (Answered(413) /\ calls = <<>>)
    /\ ResponseTooLarge =>
         /\ TargetAllowed(req)
         /\ ~DeclaresMoreThan(req.headers, MiB)
         /\ Len(calls) = 1
         /\ upstream # NoResponse
         /\ err = ""

C26_Witness ==
  /\ SecureProxied
  /\ ~TargetAllowed(req)
  /\ HasTarget(req)
  /\ DeclaresMoreThan(req.headers, MiB)
  /\ Answered(403)

(***************************************************************************)
(* C28: the methods the gateway advertises agree with those it forwards:   *)
(* every method the dispatcher hands to the forwarder is listed in the     *)
(* Access-Control-Allow-Methods header of getCorsHeaders and in the Allow  *)
(* header of the plain OPTIONS response, and the Allow header of the 405   *)
(* response lists the same methods and OPTIONS.                            *)
(***************************************************************************)
\* the methods the dispatcher of deployment v hands to the forwarder
HandedToForwarder(v, request) == Supported(v, request) \ {"OPTIONS"}

C28_AdvertisedMethodsAgree ==
  (variant \in SecureVariants /\ pc = "done" /\ OnProxyRoute(req)) =>
    /\ "Access-Control-Allow-Methods" \in DOMAIN resp.headers =>
         HandedToForwarder(variant, req)
           \subseteq MethodList(resp.headers["Access-Control-Allow-Methods"])
    /\ (req.method = "OPTIONS" /\ "Allow" \in DOMAIN resp.headers) =>
         HandedToForwarder(variant, req) \subseteq MethodList(resp.headers["Allow"])
    /\ Answered(405) =>
         MethodList(resp.headers["Allow"]) = HandedToForwarder(variant, req) \cup {"OPTIONS"}

(***************************************************************************)
(* C29: the size limits are strict and bear on declared sizes only: a      *)
(* request with Content-Length 1048576 is forwarded and only a larger      *)
(* declared value yields 413; an upstream response with Content-Length     *)
(* 10485760 is passed through and only a larger declared value yields 502; *)
(* a request or response whose Content-Length is absent, empty or not a    *)
(* number is never rejected for size, and its body is passed on uncapped.  *)
(***************************************************************************)
ContentLength(headers) == Get(headers, "Content-Length")

\* absent, empty, or not a string of decimal digits
NotANumber(value) == value = NULL \/ value = <<>> \/ DecimalValue(value, 0) = -1

RequestTooLarge == Answered(413)

\* the request went out with its body, the response came back with its body
RequestPassed == Len(calls) = 1 /\ calls[1].body = req.body

ResponsePassed == resp.body = upstream.body /\ resp.status = upstream.status

\* the limits themselves, which both readings of "declared" share
StrictLimits ==
  /\ (TargetAllowed(req) /\ ContentLength(req.headers) = Digits1048576) => RequestPassed
  /\ (TargetAllowed(req) /\ ContentLength(req.headers) = Digits1048577) => RequestTooLarge
  /\ (UpstreamResponded /\ ContentLength(upstream.headers) = Digits10485760) => ResponsePassed
  /\ (UpstreamResponded /\ ContentLength(upstream.headers) = Digits10485761) => ResponseTooLarge

\* as claimed: violated by a Content-Length such as 10485761b
C29_StrictDeclaredLimits ==
  SecureProxied =>
    /\ StrictLimits
    /\ RequestTooLarge => DeclaresMoreThan(req.headers, MiB)
    /\ ResponseTooLarge => DeclaresMoreThan(upstream.headers, 10 * MiB)
    /\ (TargetAllowed(req) /\ NotANumber(ContentLength(req.headers))) => RequestPassed
    /\ (UpstreamResponded /\ NotANumber(ContentLength(upstream.headers))) => ResponsePassed

\* the value parseInt reads is no number
ReadsNaN(value) == value = NULL \/ value = <<>> \/ parseInt(value).nan

\* as the code has it: the declared size is the number parseInt reads
C29_StrictLimitsAsRead ==
  SecureProxied =>
    /\ StrictLimits
    /\ RequestTooLarge => ReadsMoreThan(req.headers, MiB)
    /\ ResponseTooLarge => ReadsMoreThan(upstream.headers, 10 * MiB)
    /\ (TargetAllowed(req) /\ ReadsNaN(ContentLength(req.headers))) => RequestPassed
    /\ (UpstreamResponded /\ ReadsNaN(ContentLength(upstream.headers))) => ResponsePassed

C29_Witness ==
  /\ SecureProxied
  /\ ContentLength(req.headers) = Digits1048576
  /\ UpstreamResponded
  /\ ContentLength(upstream.headers) = Digits10485760
  /\ RequestPassed
  /\ ResponsePassed

(***************************************************************************)
(* C30: an OPTIONS request on the proxy route whose Origin is present and  *)
(* not in ALLOWED_ORIGINS is answered 200 with no body and no header at    *)
(* all, whatever its Access-Control-Request-Method and                     *)
(* Access-Control-Request-Headers; and no OPTIONS request is answered 403, *)
(* has its target validated, or causes an outbound call.                   *)
(***************************************************************************)
SecureOptions ==
  /\ variant \in SecureVariants
  /\ pc # "idle"
  /\ OnProxyRoute(req)
  /\ req.method = "OPTIONS"

Handling == pc \in {"fetching", "rejected"}

Terminal == pc = "done" /\ resp # NoResponse

\* a step from a terminal state keeps the response, or ends the exchange
ResponseFinal ==
  pc = "done" => \/ pc' = "done" /\ resp' = resp /\ req' = req /\ calls' = calls
                 \/ pc' = "idle" /\ served' = served + 1

C25_ExactlyOneResponse ==
  /\ Handling ~> Terminal
  /\ [][ResponseFinal]_vars

C25_Witness ==
  /\ SecureProxied
  /\ Terminal
  /\ err = "TypeError"
  /\ timer = "fired"
  /\ Answered(502)

(***************************************************************************)
(* C22: requests are handled independently. When several requests are in   *)
(* flight and their steps interleave in any order, the response of each is *)
(* the one it gets when handled alone with the same upstream behaviour; a  *)
(* request is aborted by its own timer only; and a step of one request     *)
(* leaves every other request as it was.                                   *)
(***************************************************************************)
\* the response of a request handled alone, for the way its call ended
Alone(v, request, response, errorName) ==
  LET out == Fetch(v, request)
      forwarded == Forwarded(v, request)
  IN CASE out.kind = "return" -> Deliver(v, request, out.response)
       [] out.kind = "throw" -> UncaughtResponse
       [] out.kind = "await" /\ response # NoResponse ->
            IF v = "basic" THEN handleRequestResponse(forwarded, response)
            ELSE Deliver(v, request, handleSecureResponse(forwarded, response))
       [] OTHER ->
            IF v = "basic" THEN UncaughtResponse
            ELSE Deliver(v, request, handleSecureCatch(forwarded, errorName))

AnsweredAsAlone ==
  \A i \in Slots :
    LET f == flights[i]
    IN /\ f.pc = "done" => f.resp = Alone(variant, f.req, f.upstream, f.err)
       /\ f.err = "AbortError" => f.timer = "fired"
       /\ f.aborted => f.timer = "fired"
       /\ Len(f.calls) <= 1

\* a step changes one flight at most
OneFlightPerStep ==
  \A i, j \in Slots : (i # j /\ flights'[i] # flights[i]) => flights'[j] = flights[j]

C22_Independent == []AnsweredAsAlone /\ [][OneFlightPerStep]_vars

\* one request is answered 504 after its timer, the other 200 meanwhile
C22_Witness ==
  /\ flights[1].pc = "done"
  /\ flights[1].resp.status = 504
  /\ flights[1].timer = "fired"
  /\ flights[2].pc = "done"
  /\ flights[2].resp.status = 200
  /\ flights[2].timer = "cleared"
  /\ flights[2].req = flights[1].req

(***************************************************************************)
(* C23: the same valid proxied GET request made twice, against an upstream *)
(* that answers both calls alike, gets two responses with the same status, *)
(* headers and body: the first request leaves nothing behind that changes  *)
(* the second.                                                             *)
(***************************************************************************)
ValidGet(request) ==
  /\ OnProxyRoute(request)
  /\ request.method = "GET"
  /\ TargetAllowed(request)

C23_RepeatedGetSameResponse ==
  variant \in SecureVariants =>
    \A i, j \in Slots :
      (/\ i # j
       /\ flights[i].pc = "done"
       /\ flights[j].pc = "done"
       /\ ValidGet(flights[i].req)
       /\ flights[j].req = flights[i].req
       /\ flights[i].upstream # NoResponse
       /\ flights[j].upstream = flights[i].upstream) =>
        /\ flights[j].resp.status = flights[i].resp.status
        /\ flights[j].resp.headers = flights[i].resp.headers
        /\ flights[j].resp.body = flights[i].resp.body

C23_Witness ==
  /\ variant \in SecureVariants
  /\ flights[1].pc = "done"
  /\ flights[2].pc = "done"
  /\ ValidGet(flights[1].req)
  /\ flights[2].req = flights[1].req
  /\ flights[1].upstream # NoResponse
  /\ flights[2].upstream = flights[1].upstream
  /\ flights[1].resp.status = 200
  /\ flights[2].resp = flights[1].resp

====
